---- MODULE Spec2Model ----
(***************************************************************************)
(* kedge: render a templated manifest against merged value files and       *)
(* create-or-patch every resource of it through the dynamic client.        *)
(*                                                                         *)
(* The repository holds two generations of package kedge: src/kedge.go     *)
(* and src/unnamed/part_000.  Both are modelled; the variable `variant`    *)
(* says which one a behaviour runs.  combineValues, readValues, mergeMaps  *)
(* and getAPIResourceForGVK are the same text in both files.               *)
(***************************************************************************)
EXTENDS Integers, Sequences, FiniteSets, TLC

VARIABLES
    variant,      \* "kedge" (src/kedge.go) or "part000" (src/unnamed/part_000)
    valueFiles,   \* Apply's valueFilenames: the files, each with its content
    nsArg,        \* Apply's namespace argument (a string: a Text)
    template,     \* Apply's inputFilename: [exists, content]
    catalog,      \* the server's discovery catalog: group-version -> resources
    cluster,      \* the resources the server holds: [gvr, ns, name]
    run,          \* "first" or "second" call of Apply with the same inputs
    pc,           \* position in Apply
    merged,       \* what combineValues returned: [data, err]
    data,         \* the ParameterSet handed to render
    fatal,        \* the fatal input error met: "none", "values", "stat", "render"
    rstack,       \* render's open invocations: the deferred removals of each
    tmpFiles,     \* the temporary files that exist
    passes,       \* the render invocations started: the output of each pass
    rendered,     \* what the outermost render returned: [bytes, err]
    work,         \* the documents createOrUpdateResource still has to walk
    nextRid,      \* the number of documents walked in this call
    calls,        \* the discovery, create and patch calls of this call of Apply
    outcomes,     \* the outcome of each document: created, updated, failed, skipped
    result        \* what Apply returned: "none" while running, "nil", "error"

vars == <<variant, valueFiles, nsArg, template, catalog, cluster, run, pc, merged,
          data, fatal, rstack, tmpFiles, passes, rendered, work, nextRid, calls,
          outcomes, result>>

Variants == {"kedge", "part000"}

(***************************************************************************)
(* Strings.  A string is a Text: a sequence of tokens, each a marker-free  *)
(* chunk of literal text ("lit"), the action {{ .key }} ("ref"), an action *)
(* whose execution fails ("fail") or an unclosed {{ ("bad").  The empty    *)
(* string is <<>>.  strings.Contains(s, "{{") is HasMarker(s).             *)
(***************************************************************************)
Lit(s) == [t |-> "lit", v |-> s]
Ref(k) == [t |-> "ref", v |-> k]
FailTok == [t |-> "fail", v |-> ""]
BadTok == [t |-> "bad", v |-> ""]
T(s) == <<Lit(s)>>
Tokens(text) == { text[i] : i \in 1..Len(text) }
HasMarker(text) == \E tok \in Tokens(text) : tok.t # "lit"

(***************************************************************************)
(* Values of a map[string]interface{} decoded from YAML: a tag and the     *)
(* payload (a scalar's payload is its Text).  A Go map is a function from  *)
(* its keys; a missing key reads as nil.                                   *)
(***************************************************************************)
Scalar(text) == [t |-> "scalar", v |-> text]
Nil == [t |-> "nil", v |-> <<>>]
Map(f) == [t |-> "map", v |-> f]
Arr(s) == [t |-> "array", v |-> s]
EmptyMap == <<>>

Lookup(d, k) == IF k \in DOMAIN d THEN d[k] ELSE Nil

\* mutant of mergeMaps: the second map's value replaces the first's, mappings too
mergeMapsShallow(d1, d2, recurseArrays) ==
    [k \in (DOMAIN d1) \cup (DOMAIN d2) |->
        IF k \in DOMAIN d2 THEN d2[k] ELSE d1[k]]

RECURSIVE mergeMaps(_, _, _)
mergeMaps(d1, d2, recurseArrays) ==
    [k \in (DOMAIN d1) \cup (DOMAIN d2) |->
        IF k \notin DOMAIN d2 THEN d1[k]
        ELSE LET v == d2[k]
                 old == Lookup(d1, k)
             IN  IF v.t = "map"
                 THEN IF old.t # "nil"
                      THEN IF old.t = "map"
                           THEN Map(mergeMaps(old.v, v.v, recurseArrays))
                           ELSE v
                      ELSE v
                 ELSE IF v.t = "array" /\ recurseArrays
                 THEN IF old.t # "nil"
                      THEN IF old.t = "array" THEN Arr(old.v \o v.v) ELSE v
                      ELSE v
                 ELSE v]

(***************************************************************************)
(* A value file: whether it can be read, and the YAML value it holds.      *)
(* yaml.Unmarshal into a map fails unless the document is a mapping; an    *)
(* empty (null) document leaves the map empty.                             *)
(***************************************************************************)
File(c) == [readable |-> TRUE, content |-> c]
Unreadable == [readable |-> FALSE, content |-> Nil]

readValues(file) ==
    IF ~file.readable THEN [data |-> EmptyMap, err |-> TRUE]
    ELSE IF file.content.t = "map" THEN [data |-> file.content.v, err |-> FALSE]
    ELSE IF file.content.t = "nil" THEN [data |-> EmptyMap, err |-> FALSE]
    ELSE [data |-> EmptyMap, err |-> TRUE]

RECURSIVE combineFrom(_, _, _, _)
combineFrom(acc, files, i, recurseArrays) ==
    IF i > Len(files) THEN [data |-> acc, err |-> FALSE]
    ELSE LET d == readValues(files[i])
         IN  IF d.err THEN [data |-> acc, err |-> TRUE]
             ELSE combineFrom(mergeMaps(acc, d.data, recurseArrays),
                              files, i + 1, recurseArrays)

combineValues(filesToMerge, recurseArrays) ==
    combineFrom(EmptyMap, filesToMerge, 1, recurseArrays)

\* mutant of setNamespaceKey: a namespace the value files gave is kept
setNamespaceKeyIfAbsent(d, namespace) ==
    [k \in (DOMAIN d) \cup {"namespace"} |->
        IF k \in DOMAIN d THEN d[k] ELSE Scalar(namespace)]

\* data["namespace"] = namespace
setNamespaceKey(d, namespace) ==
    [k \in (DOMAIN d) \cup {"namespace"} |->
        IF k = "namespace" THEN Scalar(namespace) ELSE d[k]]

(***************************************************************************)
(* Discovery.  A group-version is [group, version]; a resource name is the *)
(* sequence of its path segments, so that strings.Contains(name, "/") is   *)
(* Len(name) > 1.  ServerResourcesForGroupVersion fails for an empty       *)
(* group-version and for one the server does not serve.                    *)
(***************************************************************************)
GV(g, v) == [group |-> g, version |-> v]
GVK(gv, kind) == [group |-> gv.group, version |-> gv.version, kind |-> kind]
APIResource(name, kind, namespaced) ==
    [name |-> name, kind |-> kind, namespaced |-> namespaced,
     group |-> "", version |-> ""]
ZeroAPIResource == APIResource(<<>>, "", FALSE)

ServerResourcesForGroupVersion(cat, gv) ==
    IF gv = GV("", "") \/ gv \notin DOMAIN cat
    THEN [list |-> <<>>, err |-> TRUE]
    ELSE [list |-> cat[gv], err |-> FALSE]

\* mutant of scanAPIResources: the name is not looked at
RECURSIVE scanAnyName(_, _, _)
scanAnyName(list, gvk, i) ==
    IF i > Len(list) THEN ZeroAPIResource
    ELSE IF list[i].kind = gvk.kind
         THEN [list[i] EXCEPT !.group = gvk.group, !.version = gvk.version]
         ELSE scanAnyName(list, gvk, i + 1)

\* the loop of getAPIResourceForGVK: the first entry from index i on that matches
RECURSIVE scanAPIResources(_, _, _)
scanAPIResources(list, gvk, i) ==
    IF i > Len(list) THEN ZeroAPIResource
    ELSE IF list[i].kind = gvk.kind /\ ~(Len(list[i].name) > 1)
         THEN [list[i] EXCEPT !.group = gvk.group, !.version = gvk.version]
         ELSE scanAPIResources(list, gvk, i + 1)

getAPIResourceForGVK(gvk, cat) ==
    LET resList == ServerResourcesForGroupVersion(cat, GV(gvk.group, gvk.version))
    IN  IF resList.err THEN [res |-> ZeroAPIResource, err |-> TRUE]
        ELSE [res |-> scanAPIResources(resList.list, gvk, 1), err |-> FALSE]

GVR(g, v, r) == [group |-> g, version |-> v, resource |-> r]

getDynamicClientOnKind(apiversion, kind, cat) ==
    LET apiRes == getAPIResourceForGVK(GVK(apiversion, kind), cat)
    IN  IF apiRes.err
        THEN [gvr |-> GVR("", "", <<>>), namespaced |-> FALSE, err |-> TRUE,
              res |-> apiRes.res]
        ELSE [gvr |-> GVR(apiRes.res.group, apiRes.res.version, apiRes.res.name),
              namespaced |-> apiRes.res.namespaced, err |-> FALSE,
              res |-> apiRes.res]

(***************************************************************************)
(* Documents.  A manifest document carries kind, apiVersion, metadata.name *)
(* and metadata.namespace, the server-managed metadata, and an items field *)
(* that is absent (hasItems FALSE) or an array.  In a template file the    *)
(* namespace may hold template actions.                                    *)
(***************************************************************************)
Doc(kind, gv, name, ns, managed) ==
    [kind |-> kind, apiVersion |-> gv, name |-> name, namespace |-> ns,
     selfLink |-> IF managed THEN "/apis/x" ELSE "",
     resourceVersion |-> IF managed THEN "42" ELSE "",
     uid |-> IF managed THEN "u-1" ELSE "",
     ownerReferences |-> IF managed THEN <<"owner">> ELSE <<>>,
     hasItems |-> FALSE, items |-> <<>>]
ListDoc(items) ==
    [Doc("List", GV("", "v1"), "", <<>>, FALSE) EXCEPT
        !.hasItems = TRUE, !.items = items]

\* Unstructured.IsList: the items field is there and is an array
IsList(obj) == obj.hasItems

\* yaml.Unmarshal into an Unstructured fails on a document without a kind
Unmarshal(doc) == [obj |-> doc, err |-> doc.kind = ""]

RECURSIVE DocTexts(_)
DocTexts(doc) ==
    {doc.namespace} \cup UNION { DocTexts(doc.items[i]) : i \in 1..Len(doc.items) }

\* fileContains(path, "{{") on a file holding doc
fileContains(doc) == \E text \in DocTexts(doc) : HasMarker(text)

(***************************************************************************)
(* text/template.  ParseFiles fails on an unclosed action; Execute prints  *)
(* a scalar parameter as it is (markers in it included), a missing or nil  *)
(* one as <no value>, a map or an array in Go's notation; it fails on a    *)
(* failing action.                                                         *)
(***************************************************************************)
Printed(val) ==
    IF val.t = "scalar" THEN val.v
    ELSE IF val.t = "nil" THEN T("<no value>")
    ELSE T("map[...]")

RECURSIVE ExecuteText(_, _)
ExecuteText(text, d) ==
    IF text = <<>> THEN <<>>
    ELSE LET tok == Head(text)
         IN  (IF tok.t = "ref" THEN Printed(Lookup(d, tok.v)) ELSE <<tok>>)
             \o ExecuteText(Tail(text), d)

RECURSIVE ExecuteDoc(_, _)
ExecuteDoc(doc, d) ==
    [doc EXCEPT !.namespace = ExecuteText(doc.namespace, d),
                !.items = [i \in 1..Len(doc.items) |-> ExecuteDoc(doc.items[i], d)]]

DocTokens(doc) == UNION { Tokens(text) : text \in DocTexts(doc) }
ParseFails(doc) == \E tok \in DocTokens(doc) : tok.t = "bad"
ExecuteFails(doc) == \E tok \in DocTokens(doc) : tok.t = "fail"

(***************************************************************************)
(* render.  One invocation parses the file it is given, creates its        *)
(* temporary file, executes the template into it and, in src/kedge.go,     *)
(* scans it for "{{" and calls itself on it when the marker is there.      *)
(* tmpOK: ioutil.TempFile succeeds; statOK: os.Stat of the temporary file  *)
(* succeeds (src/kedge.go only); scanOK: the scanner of fileContains meets *)
(* no error before it finds the marker or the end of the file (a line      *)
(* longer than its buffer is one).                                         *)
(* exit: "parse", "tmp", "stat", "execute", "scan" (the error returns),    *)
(* "recurse" or "return"; tmp: whether the invocation created its          *)
(* temporary file.                                                         *)
(***************************************************************************)
renderKedge(input, d, tmpOK, statOK, scanOK) ==
    IF ParseFails(input) THEN [exit |-> "parse", out |-> input, tmp |-> FALSE]
    ELSE IF ~tmpOK THEN [exit |-> "tmp", out |-> input, tmp |-> FALSE]
    ELSE IF ~statOK THEN [exit |-> "stat", out |-> input, tmp |-> TRUE]
    ELSE IF ExecuteFails(input) THEN [exit |-> "execute", out |-> input, tmp |-> TRUE]
    ELSE LET out == ExecuteDoc(input, d)
         IN  IF ~scanOK THEN [exit |-> "scan", out |-> out, tmp |-> TRUE]
             ELSE IF fileContains(out)
             THEN [exit |-> "recurse", out |-> out, tmp |-> TRUE]
             ELSE [exit |-> "return", out |-> out, tmp |-> TRUE]

renderPart(input, d, tmpOK) ==
    IF ParseFails(input) THEN [exit |-> "parse", out |-> input, tmp |-> FALSE]
    ELSE IF ~tmpOK THEN [exit |-> "tmp", out |-> input, tmp |-> FALSE]
    ELSE IF ExecuteFails(input) THEN [exit |-> "execute", out |-> input, tmp |-> TRUE]
    ELSE [exit |-> "return", out |-> ExecuteDoc(input, d), tmp |-> TRUE]

render(v, input, d, tmpOK, statOK, scanOK) ==
    IF v = "kedge" THEN renderKedge(input, d, tmpOK, statOK, scanOK)
    ELSE renderPart(input, d, tmpOK)

\* mutant of deferredRemove: the temporary file is removed at the end of a
\* pass that succeeded, and not by a deferred call
removeAtEnd(r, id) == IF r.tmp /\ r.exit \in {"return", "recurse"} THEN {id} ELSE {}

\* defer os.Remove(tmp.Name()): the files the invocation removes when it
\* returns, whichever return statement it leaves by
deferredRemove(r, id) == IF r.tmp THEN {id} ELSE {}

(***************************************************************************)
(* The part of createOrUpdateResource before the create call.              *)
(***************************************************************************)
Client(gvr, namespaced, ns) == [gvr |-> gvr, namespaced |-> namespaced, ns |-> ns]

prepareKedge(obj, namespace, c) ==
    [client |-> Client(c.gvr, c.namespaced, IF c.namespaced THEN namespace ELSE <<>>),
     obj |-> [obj EXCEPT !.namespace = namespace, !.resourceVersion = "",
                         !.uid = "", !.ownerReferences = <<>>]]

preparePart(obj, namespace, c) ==
    LET ns == IF c.namespaced /\ obj.namespace # <<>> THEN obj.namespace
              ELSE namespace
        o == IF c.namespaced /\ obj.namespace = <<>>
             THEN [obj EXCEPT !.namespace = namespace] ELSE obj
    IN  [client |-> Client(c.gvr, c.namespaced, IF c.namespaced THEN ns ELSE <<>>),
         obj |-> [o EXCEPT !.selfLink = "", !.resourceVersion = "",
                           !.uid = "", !.ownerReferences = <<>>]]

prepare(v, obj, namespace, c) ==
    IF v = "kedge" THEN prepareKedge(obj, namespace, c)
    ELSE preparePart(obj, namespace, c)

\* mutant of ObjectKinds: the kind is looked up among the registered types
\* and comes back in the version it was registered first with
ObjectKindsRegistered(obj) ==
    IF obj.kind = "" \/ obj.apiVersion.version = ""
    THEN [gvks |-> <<>>, err |-> TRUE]
    ELSE [gvks |-> <<GVK(GV(obj.apiVersion.group, "v1beta1"), obj.kind)>>,
          err |-> FALSE]

\* scheme.Scheme.ObjectKinds of an Unstructured: its declared kind, an error
\* when the kind or the version is empty
ObjectKinds(obj) ==
    IF obj.kind = "" \/ obj.apiVersion.version = ""
    THEN [gvks |-> <<>>, err |-> TRUE]
    ELSE [gvks |-> <<GVK(obj.apiVersion, obj.kind)>>, err |-> FALSE]

\* mutant of makeNewPatchableData: only the kinds registered as typed objects
\* are recognised
makeNewPatchableDataTyped(obj) ==
    IF obj.kind \notin {"ClusterRole", "ClusterRoleBinding", "StatefulSet"}
    THEN [body |-> obj, err |-> TRUE]
    ELSE [body |-> obj, err |-> FALSE]

makeNewPatchableData(obj) ==
    LET k == ObjectKinds(obj)
    IN  IF k.err \/ Len(k.gvks) = 0 THEN [body |-> obj, err |-> TRUE]
        ELSE [body |-> [obj EXCEPT !.kind = k.gvks[1].kind,
                                   !.apiVersion = GV(k.gvks[1].group, k.gvks[1].version)],
              err |-> FALSE]

\* the patch body: the bytes received (src/kedge.go), the rebuilt object (part_000)
patchBody(v, b, obj) ==
    IF v = "kedge" THEN [body |-> b, err |-> FALSE] ELSE makeNewPatchableData(obj)

(***************************************************************************)
(* The server.  A create at no resource path, or at a namespace other than *)
(* the object's, is refused; any call may fail.                            *)
(***************************************************************************)
ResourceId(client, name) == [gvr |-> client.gvr, ns |-> client.ns, name |-> name]

CreateOutcomes(cl, client, obj) ==
    IF client.gvr.resource = <<>> THEN {"error"}
    ELSE IF client.namespaced
            /\ (client.ns = <<>> \/ obj.namespace \notin {<<>>, client.ns})
    THEN {"error"}
    ELSE IF ResourceId(client, obj.name) \in cl THEN {"exists", "error"}
    ELSE {"created", "error"}

PatchOutcomes(cl, client, name) ==
    IF ResourceId(client, name) \in cl THEN {"updated", "error"} ELSE {"error"}

Call(op, rid, doc, c, client, obj, existed, out) ==
    [op |-> op, rid |-> rid, doc |-> doc, res |-> c.res, client |-> client,
     obj |-> obj, existed |-> existed, out |-> out]

\* mutant of reconcileOne: the patch call is made after every create call
reconcileOnePatchAlways(v, rid, doc, namespace, cat, cl, createOut, patchOut) ==
    LET c == getDynamicClientOnKind(doc.apiVersion, doc.kind, cat)
        p == prepare(v, doc, namespace, c)
        existed == ResourceId(p.client, p.obj.name) \in cl
        discover == Call("discover", rid, doc, c, Client(c.gvr, FALSE, <<>>), doc,
                         FALSE, IF c.err THEN "error" ELSE "ok")
        create == Call("create", rid, doc, c, p.client, p.obj, existed, createOut)
        patch == Call("patch", rid, doc, c, p.client, p.obj, existed, patchOut)
    IN  IF c.err
        THEN [calls |-> <<discover>>, outcome |-> "failed", created |-> {}]
        ELSE [calls |-> <<discover, create, patch>>,
              outcome |-> IF createOut = "created" THEN "created"
                          ELSE IF patchOut = "updated" THEN "updated" ELSE "failed",
              created |-> IF createOut = "created"
                          THEN {ResourceId(p.client, p.obj.name)} ELSE {}]

(***************************************************************************)
(* createOrUpdateResource on one document that is no list: the calls it    *)
(* makes, the outcome, and whether it returns an error.  createOut and     *)
(* patchOut are the server's answers.                                      *)
(***************************************************************************)
reconcileOne(v, rid, doc, namespace, cat, cl, createOut, patchOut) ==
    LET c == getDynamicClientOnKind(doc.apiVersion, doc.kind, cat)
        noClient == Client(c.gvr, FALSE, <<>>)
        discover == Call("discover", rid, doc, c, noClient, doc, FALSE,
                         IF c.err THEN "error" ELSE "ok")
        p == prepare(v, doc, namespace, c)
        existed == ResourceId(p.client, p.obj.name) \in cl
        create == Call("create", rid, doc, c, p.client, p.obj, existed, createOut)
        pb == patchBody(v, doc, p.obj)
        patch == Call("patch", rid, doc, c, p.client, pb.body, existed, patchOut)
    IN  IF c.err
        THEN [calls |-> <<discover>>, outcome |-> "failed", created |-> {}]
        ELSE IF createOut = "created"
        THEN [calls |-> <<discover, create>>, outcome |-> "created",
              created |-> {ResourceId(p.client, p.obj.name)}]
        ELSE IF createOut = "error"
        THEN [calls |-> <<discover, create>>, outcome |-> "failed", created |-> {}]
        ELSE IF pb.err
        THEN [calls |-> <<discover, create>>, outcome |-> "failed", created |-> {}]
        ELSE [calls |-> <<discover, create, patch>>,
              outcome |-> IF patchOut = "updated" THEN "updated" ELSE "failed",
              created |-> {}]

\* the server's possible answers to the calls reconcileOne makes
Answers(v, doc, namespace, cat, cl) ==
    LET c == getDynamicClientOnKind(doc.apiVersion, doc.kind, cat)
        p == prepare(v, doc, namespace, c)
    IN  { a \in {"created", "exists", "error"} \X {"updated", "error"} :
            /\ a[1] \in CreateOutcomes(cl, p.client, p.obj)
            /\ a[2] \in PatchOutcomes(cl, p.client, p.obj.name)
            /\ (c.err \/ a[1] # "exists") => a[2] = "error" }

(***************************************************************************)
(* Bounds and inputs.                                                      *)
(***************************************************************************)
MaxFiles == 3      \* value files of one call (SpecMerge)
MaxItems == 2      \* items of one list document
MaxPasses == 3     \* render invocations the model follows
MaxEntries == 3    \* resources of one discovery answer (SpecDiscovery)
MaxTokens == 2     \* tokens of one templated string (SpecRender)

SeqsUpTo(S, n) == UNION { [1..m -> S] : m \in 0..n }

Apps == GV("apps", "v1")
Rbac == GV("rbac.authorization.k8s.io", "v1")
Core == GV("", "v1")

ServedCatalog ==
    Apps :> << APIResource(<<"deployments", "status">>, "Deployment", TRUE),
               APIResource(<<"deployments">>, "Deployment", TRUE),
               APIResource(<<"deployments", "scale">>, "Scale", TRUE) >>
    @@ Rbac :> << APIResource(<<"clusterroles">>, "ClusterRole", FALSE) >>
    @@ Core :> << APIResource(<<"namespaces">>, "Namespace", FALSE) >>

Deployment(ns, managed) == Doc("Deployment", Apps, "web", ns, managed)
ClusterRole == Doc("ClusterRole", Rbac, "admin", <<>>, FALSE)
Ghost == Doc("Ghost", Apps, "web", <<>>, FALSE)            \* kind not served
Widget == Doc("Widget", GV("example.io", "v1"), "web", <<>>, FALSE) \* group not served
BareList == Doc("List", Core, "", <<>>, FALSE)             \* kind List, no items
NoKind == Doc("", Apps, "web", <<>>, FALSE)                \* does not decode

ListLeaves == {Deployment(<<>>, FALSE), ClusterRole, Ghost, Widget, NoKind}
Leaves ==
    ListLeaves
    \cup {Deployment(T("team-b"), TRUE), Deployment(<<Ref("target")>>, FALSE),
          Deployment(<<FailTok>>, FALSE), Deployment(<<BadTok>>, FALSE), BareList}
Manifests ==
    Leaves
    \cup { ListDoc(items) : items \in SeqsUpTo(ListLeaves, MaxItems) }
    \cup { ListDoc(<<ListDoc(<<Ghost, Deployment(<<>>, FALSE)>>), ClusterRole>>),
           ListDoc(<<ListDoc(<<>>), Deployment(<<Ref("target")>>, FALSE)>>) }

\* value files for a template that reads the parameter "target"
TargetFiles ==
    { <<>>,
      <<File(Map("target" :> Scalar(T("team-c"))))>>,
      <<File(Map("target" :> Scalar(<<Ref("namespace")>>)
                 @@ "namespace" :> Scalar(T("team-z"))))>>,
      <<File(Map("target" :> Scalar(<<Lit("x-"), Ref("target")>>)))>> }
PlainFiles == { <<>>, <<Unreadable>>, <<File(Map("namespace" :> Scalar(T("team-z"))))>> }

NoMerge == [data |-> EmptyMap, err |-> FALSE]
NoRender == [bytes |-> BareList, err |-> FALSE]

Idle ==
    /\ merged = NoMerge
    /\ data = EmptyMap
    /\ fatal = "none"
    /\ rstack = <<>>
    /\ tmpFiles = {}
    /\ passes = <<>>
    /\ rendered = NoRender
    /\ work = <<>>
    /\ nextRid = 0
    /\ calls = <<>>
    /\ outcomes = <<>>
    /\ result = "none"

Init ==
    /\ variant \in Variants
    /\ nsArg = T("team-a")
    /\ \/ /\ template \in { [exists |-> TRUE, content |-> m] : m \in Manifests }
          /\ valueFiles \in IF fileContains(template.content)
                            THEN TargetFiles ELSE PlainFiles
       \/ /\ template = [exists |-> FALSE, content |-> BareList]
          /\ valueFiles = <<>>
    /\ catalog = ServedCatalog
    /\ cluster = {}
    /\ run = "first"
    /\ pc = "values"
    /\ Idle

(***************************************************************************)
(* Apply.                                                                  *)
(***************************************************************************)
ApplyValues ==
    /\ pc = "values"
    /\ LET r == combineValues(valueFiles, FALSE)
       IN  /\ merged' = r
           /\ IF r.err
              THEN /\ data' = data
                   /\ fatal' = "values"
                   /\ result' = "error"
                   /\ pc' = "done"
              ELSE /\ data' = setNamespaceKey(r.data, nsArg)
                   /\ fatal' = fatal
                   /\ result' = result
                   /\ pc' = "stat"
    /\ UNCHANGED <<variant, valueFiles, nsArg, template, catalog, cluster, run,
                   rstack, tmpFiles, passes, rendered, work, nextRid, calls,
                   outcomes>>

ApplyStat ==
    /\ pc = "stat"
    /\ IF template.exists
       THEN /\ pc' = "render"
            /\ UNCHANGED <<fatal, result>>
       ELSE /\ pc' = "done"
            /\ fatal' = "stat"
            /\ result' = "error"
    /\ UNCHANGED <<variant, valueFiles, nsArg, template, catalog, cluster, run,
                   merged, data, rstack, tmpFiles, passes, rendered, work, nextRid,
                   calls, outcomes>>

\* one invocation of render, up to its return statement or its call of itself
RenderPass ==
    /\ pc = "render"
    /\ Len(passes) < MaxPasses
    /\ \E tmpOK \in BOOLEAN, statOK \in BOOLEAN, scanOK \in BOOLEAN :
          LET input == IF passes = <<>> THEN template.content
                       ELSE passes[Len(passes)].out
              r == render(variant, input, data, tmpOK, statOK, scanOK)
              id == Len(passes) + 1
          IN  /\ passes' = Append(passes, r)
              /\ rstack' = IF r.tmp THEN Append(rstack, deferredRemove(r, id))
                            ELSE rstack
              /\ tmpFiles' = IF r.tmp THEN tmpFiles \cup {id} ELSE tmpFiles
              /\ IF r.exit = "recurse"
                 THEN UNCHANGED <<pc, rendered>>
                 ELSE /\ pc' = "unwind"
                      /\ rendered' = [bytes |-> r.out, err |-> r.exit # "return"]
    /\ UNCHANGED <<variant, valueFiles, nsArg, template, catalog, cluster, run,
                   merged, data, fatal, work, nextRid, calls, outcomes, result>>

\* the return of one invocation: its deferred os.Remove runs
RenderUnwind ==
    /\ pc = "unwind"
    /\ rstack # <<>>
    /\ tmpFiles' = tmpFiles \ rstack[Len(rstack)]
    /\ rstack' = SubSeq(rstack, 1, Len(rstack) - 1)
    /\ UNCHANGED <<variant, valueFiles, nsArg, template, catalog, cluster, run, pc,
                   merged, data, fatal, passes, rendered, work, nextRid, calls,
                   outcomes, result>>

\* render's error in Apply: src/kedge.go returns nil, part_000 the error
renderFailed(v) == IF v = "kedge" THEN "nil" ELSE "error"

ApplyRendered ==
    /\ pc = "unwind"
    /\ rstack = <<>>
    /\ IF rendered.err
       THEN /\ fatal' = "render"
            /\ result' = renderFailed(variant)
            /\ pc' = "done"
            /\ work' = work
       ELSE /\ work' = <<rendered.bytes>>
            /\ pc' = "reconcile"
            /\ UNCHANGED <<fatal, result>>
    /\ UNCHANGED <<variant, valueFiles, nsArg, template, catalog, cluster, run,
                   merged, data, rstack, tmpFiles, passes, rendered, nextRid, calls,
                   outcomes>>

(***************************************************************************)
(* createOrUpdateResource.  work holds the documents still to walk, in the *)
(* order EachListItem reaches them.  An error returned by the function     *)
(* ends every enclosing EachListItem in part_000 (the callback returns it) *)
(* and Apply returns it; src/kedge.go logs it and returns nothing.         *)
(***************************************************************************)
afterFailure(v, rest) ==
    IF v = "kedge" THEN [work |-> rest, pc |-> "reconcile", result |-> "none"]
    ELSE [work |-> <<>>, pc |-> "done", result |-> "error"]

Outcome(rid, doc, status) == [rid |-> rid, doc |-> doc, status |-> status]

\* the check of gvk.Kind == "List" after IsList (part_000 only)
skipsBareList(v, obj) == v = "part000" /\ obj.kind = "List"

ReconcileDecodeError ==
    /\ pc = "reconcile"
    /\ work # <<>>
    /\ Unmarshal(Head(work)).err
    /\ LET f == afterFailure(variant, Tail(work))
       IN  /\ work' = f.work
           /\ pc' = f.pc
           /\ result' = f.result
    /\ nextRid' = nextRid + 1
    /\ outcomes' = Append(outcomes, Outcome(nextRid + 1, Head(work), "failed"))
    /\ UNCHANGED <<variant, valueFiles, nsArg, template, catalog, cluster, run,
                   merged, data, fatal, rstack, tmpFiles, passes, rendered, calls>>

ReconcileList ==
    /\ pc = "reconcile"
    /\ work # <<>>
    /\ ~Unmarshal(Head(work)).err
    /\ IsList(Head(work))
    /\ work' = Head(work).items \o Tail(work)
    /\ UNCHANGED <<variant, valueFiles, nsArg, template, catalog, cluster, run, pc,
                   merged, data, fatal, rstack, tmpFiles, passes, rendered, nextRid,
                   calls, outcomes, result>>

ReconcileSkip ==
    /\ pc = "reconcile"
    /\ work # <<>>
    /\ ~Unmarshal(Head(work)).err
    /\ ~IsList(Head(work))
    /\ skipsBareList(variant, Head(work))
    /\ work' = Tail(work)
    /\ nextRid' = nextRid + 1
    /\ outcomes' = Append(outcomes, Outcome(nextRid + 1, Head(work), "skipped"))
    /\ UNCHANGED <<variant, valueFiles, nsArg, template, catalog, cluster, run, pc,
                   merged, data, fatal, rstack, tmpFiles, passes, rendered, calls,
                   result>>

ReconcileResource ==
    /\ pc = "reconcile"
    /\ work # <<>>
    /\ ~Unmarshal(Head(work)).err
    /\ ~IsList(Head(work))
    /\ ~skipsBareList(variant, Head(work))
    /\ \E a \in Answers(variant, Head(work), nsArg, catalog, cluster) :
          LET r == reconcileOne(variant, nextRid + 1, Head(work), nsArg, catalog,
                                cluster, a[1], a[2])
              f == IF r.outcome = "failed" THEN afterFailure(variant, Tail(work))
                   ELSE [work |-> Tail(work), pc |-> "reconcile", result |-> "none"]
          IN  /\ calls' = calls \o r.calls
              /\ cluster' = cluster \cup r.created
              /\ outcomes' = Append(outcomes, Outcome(nextRid + 1, Head(work), r.outcome))
              /\ work' = f.work
              /\ pc' = f.pc
              /\ result' = f.result
    /\ nextRid' = nextRid + 1
    /\ UNCHANGED <<variant, valueFiles, nsArg, template, catalog, run, merged, data,
                   fatal, rstack, tmpFiles, passes, rendered>>

ApplyReturn ==
    /\ pc = "reconcile"
    /\ work = <<>>
    /\ pc' = "done"
    /\ result' = "nil"
    /\ UNCHANGED <<variant, valueFiles, nsArg, template, catalog, cluster, run,
                   merged, data, fatal, rstack, tmpFiles, passes, rendered, work,
                   nextRid, calls, outcomes>>

\* Apply is called again with the same arguments, against the cluster as it is
ApplyAgain ==
    /\ pc = "done"
    /\ run = "first"
    /\ run' = "second"
    /\ pc' = "values"
    /\ merged' = NoMerge
    /\ data' = EmptyMap
    /\ fatal' = "none"
    /\ rstack' = <<>>
    /\ tmpFiles' = {}
    /\ passes' = <<>>
    /\ rendered' = NoRender
    /\ work' = <<>>
    /\ nextRid' = 0
    /\ calls' = <<>>
    /\ outcomes' = <<>>
    /\ result' = "none"
    /\ UNCHANGED <<variant, valueFiles, nsArg, template, catalog, cluster>>

Next ==
    \/ ApplyValues
    \/ ApplyStat
    \/ RenderPass
    \/ RenderUnwind
    \/ ApplyRendered
    \/ ReconcileDecodeError
    \/ ReconcileList
    \/ ReconcileSkip
    \/ ReconcileResource
    \/ ApplyReturn
    \/ ApplyAgain

Spec == Init /\ [][Next]_vars

(***************************************************************************)
(* SpecMerge: Apply's first lines over every sequence of value files.      *)
(***************************************************************************)
SubVals ==
    {Scalar(T("1")), Scalar(T("2")), Map("a" :> Scalar(T("1"))),
     Map("b" :> Scalar(T("2")))}
SubMaps ==
    { f \in UNION { [ks -> SubVals] : ks \in SUBSET {"a", "b"} } :
        "b" \in DOMAIN f => f["b"] = Scalar(T("2")) }
KVals == {Scalar(T("1")), Nil, Arr(<<Scalar(T("1"))>>)} \cup { Map(m) : m \in SubMaps }
MergeContents ==
    {Nil, Scalar(T("1")),
     Map("namespace" :> Scalar(T("team-z"))),
     Map("namespace" :> Map("a" :> Scalar(T("1"))) @@ "k" :> Scalar(T("2")))}
    \cup { Map("k" :> x) : x \in KVals }
MergeFiles == {Unreadable} \cup { File(c) : c \in MergeContents }

InitMerge ==
    /\ variant \in Variants
    /\ nsArg = T("team-a")
    /\ valueFiles \in SeqsUpTo(MergeFiles, MaxFiles)
    /\ template = [exists |-> TRUE, content |-> BareList]
    /\ catalog = ServedCatalog
    /\ cluster = {}
    /\ run = "first"
    /\ pc = "values"
    /\ Idle

NextMerge == ApplyValues \/ ApplyStat

SpecMerge == InitMerge /\ [][NextMerge]_vars

\* the maps the value files decode to, in order
Decoded(files) == [i \in 1..Len(files) |-> readValues(files[i]).data]
AllDecode(files) == \A i \in 1..Len(files) : ~readValues(files[i]).err

Max(S) == CHOOSE x \in S : \A y \in S : y <= x

\* the maps found at key k in maps[from + 1 ..], in order
MapsAt(maps, k, from) ==
    LET idx == { i \in 1..Len(maps) : i > from /\ k \in DOMAIN maps[i] }
        F[n \in 0..Len(maps)] ==
            IF n = 0 THEN <<>>
            ELSE IF n \in idx THEN Append(F[n - 1], maps[n][k].v) ELSE F[n - 1]
    IN  F[Len(maps)]

(***************************************************************************)
(* The merge the specification describes, key by key: the last file that   *)
(* defines a key decides; when its value is a mapping, the value is the    *)
(* merge, by the same rule, of the mappings the files give the key since   *)
(* the last file that gave it something else.                              *)
(***************************************************************************)
RECURSIVE LastWins(_)
LastWins(maps) ==
    [k \in UNION { DOMAIN maps[i] : i \in 1..Len(maps) } |->
        LET defs == { i \in 1..Len(maps) : k \in DOMAIN maps[i] }
            last == maps[Max(defs)][k]
            others == { i \in defs : maps[i][k].t # "map" }
        IN  IF last.t # "map" THEN last
            ELSE Map(LastWins(MapsAt(maps, k, IF others = {} THEN 0 ELSE Max(others))))]

\* C4: for every sequence of value files that decode, combineValues returns
\* the last-wins deep merge: at a key whose last definition is not a mapping,
\* that definition; at a mapping-typed key, the merge by the same rule of the
\* mappings the files give it, at every nesting level.
C4_LastWinsDeepMerge ==
    (pc # "values" /\ AllDecode(valueFiles))
        => /\ ~merged.err
           /\ merged.data = LastWins(Decoded(valueFiles))

\* three files met at one key: a mapping, then two more that merge into a
\* mapping holding a nested mapping and a scalar overwritten by the last file
C4_Witness ==
    /\ pc # "values"
    /\ Len(valueFiles) = 3
    /\ AllDecode(valueFiles)
    /\ \A i \in 1..3 : "k" \in DOMAIN Decoded(valueFiles)[i]
                       /\ Decoded(valueFiles)[i]["k"].t = "map"
    /\ merged.data["k"] = Map("a" :> Map("a" :> Scalar(T("1")) @@ "b" :> Scalar(T("2")))
                              @@ "b" :> Scalar(T("2")))

\* C8: the ParameterSet handed to render has the key "namespace" equal to
\* Apply's namespace argument, whatever the value files give that key, and
\* every other key as combineValues merged it.
C8_CallerNamespaceWins ==
    pc = "render"
        => /\ DOMAIN data = (DOMAIN merged.data) \cup {"namespace"}
           /\ data["namespace"] = Scalar(nsArg)
           /\ \A k \in (DOMAIN merged.data) \ {"namespace"} : data[k] = merged.data[k]

\* a value file gave "namespace" another value, and another key beside it
C8_Witness ==
    /\ pc = "render"
    /\ "namespace" \in DOMAIN merged.data
    /\ merged.data["namespace"] # Scalar(nsArg)
    /\ "k" \in DOMAIN data

(***************************************************************************)
(* SpecDiscovery: one document of kind Thing reconciled against every      *)
(* discovery answer of up to MaxEntries resources.                         *)
(***************************************************************************)
Thing == Doc("Thing", Apps, "web", <<>>, FALSE)
Entries ==
    { APIResource(name, kind, namespaced) :
        name \in {<<"things">>, <<"things", "status">>},
        kind \in {"Thing", "Other"},
        namespaced \in BOOLEAN }

\* Apply's state when it calls createOrUpdateResource on a template without
\* template actions
AfterRender(doc) ==
    /\ pc = "reconcile"
    /\ merged = NoMerge
    /\ data = setNamespaceKey(EmptyMap, nsArg)
    /\ fatal = "none"
    /\ rstack = <<>>
    /\ tmpFiles = {}
    /\ passes = <<[exit |-> "return", out |-> doc, tmp |-> TRUE]>>
    /\ rendered = [bytes |-> doc, err |-> FALSE]
    /\ work = <<doc>>
    /\ nextRid = 0
    /\ calls = <<>>
    /\ outcomes = <<>>
    /\ result = "none"

InitDiscovery ==
    /\ variant \in Variants
    /\ nsArg = T("team-a")
    /\ valueFiles = <<>>
    /\ template = [exists |-> TRUE, content |-> Thing]
    /\ catalog \in { Apps :> list : list \in SeqsUpTo(Entries, MaxEntries) }
    /\ cluster = {}
    /\ run = "first"
    /\ AfterRender(Thing)

NextDiscovery == ReconcileResource \/ ApplyReturn

SpecDiscovery == InitDiscovery /\ [][NextDiscovery]_vars

\* the entries of the answer for the document's group-version that have its
\* kind and a name without "/"
PlainMatches(e) ==
    LET list == catalog[e.doc.apiVersion]
    IN  { j \in 1..Len(list) : list[j].kind = e.doc.kind /\ Len(list[j].name) <= 1 }

\* C6: getAPIResourceForGVK returns an entry of the requested kind whose name
\* has no "/", with the requested group and version; when the answer holds no
\* such entry (the kind is absent or has subresource entries only) it returns
\* the zero coordinate and no error.
C6_NoSubresourceBinding ==
    \A i \in 1..Len(calls) :
        (calls[i].op = "discover" /\ calls[i].doc.apiVersion \in DOMAIN catalog)
            => LET e == calls[i]
                   list == catalog[e.doc.apiVersion]
               IN  /\ e.out = "ok"
                   /\ IF PlainMatches(e) = {}
                      THEN e.res = ZeroAPIResource
                      ELSE /\ e.res.kind = e.doc.kind
                           /\ Len(e.res.name) = 1
                           /\ \E j \in PlainMatches(e) :
                                 e.res = [list[j] EXCEPT
                                             !.group = e.doc.apiVersion.group,
                                             !.version = e.doc.apiVersion.version]

\* every entry of the requested kind is a subresource entry: not found
C6_Witness ==
    \E i \in 1..Len(calls) :
        /\ calls[i].op = "discover"
        /\ calls[i].out = "ok"
        /\ calls[i].res = ZeroAPIResource
        /\ \E j \in 1..Len(catalog[Apps]) : catalog[Apps][j].kind = "Thing"
        /\ \A j \in 1..Len(catalog[Apps]) :
              catalog[Apps][j].kind = "Thing" => Len(catalog[Apps][j].name) > 1

(***************************************************************************)
(* SpecRender: render on one templated string of up to MaxTokens tokens,   *)
(* against parameters that are plain, template fragments, or refer to      *)
(* themselves.                                                             *)
(***************************************************************************)
TokenSet == {Lit("a"), Ref("p"), Ref("q"), Ref("namespace"), FailTok, BadTok}
PVals ==
    {Scalar(T("v")), Scalar(<<Ref("q")>>), Scalar(<<Lit("x"), Ref("p")>>),
     Scalar(<<Lit("x"), Ref("namespace")>>), Scalar(<<BadTok>>)}
QVals == {Scalar(T("w")), Scalar(<<Ref("p")>>), Map(EmptyMap)}
ParamMaps ==
    { f \in UNION { [ks -> PVals \cup QVals] : ks \in SUBSET {"p", "q"} } :
        /\ "p" \in DOMAIN f => f["p"] \in PVals
        /\ "q" \in DOMAIN f => f["q"] \in QVals }

InitRender ==
    /\ variant \in Variants
    /\ nsArg = T("team-a")
    /\ valueFiles \in { <<File(Map(d))>> : d \in ParamMaps }
    /\ template \in { [exists |-> TRUE, content |-> Deployment(text, FALSE)] :
                         text \in SeqsUpTo(TokenSet, MaxTokens) }
    /\ catalog = ServedCatalog
    /\ cluster = {}
    /\ run = "first"
    /\ pc = "render"
    /\ merged = combineValues(valueFiles, FALSE)
    /\ data = setNamespaceKey(merged.data, nsArg)
    /\ fatal = "none"
    /\ rstack = <<>>
    /\ tmpFiles = {}
    /\ passes = <<>>
    /\ rendered = NoRender
    /\ work = <<>>
    /\ nextRid = 0
    /\ calls = <<>>
    /\ outcomes = <<>>
    /\ result = "none"

NextRender == RenderPass \/ RenderUnwind \/ ApplyRendered

SpecRender == InitRender /\ [][NextRender]_vars

\* what parameter k prints as
PrintedParam(k) == Printed(Lookup(data, k))
\* a parameter whose value is a template fragment over marker-free parameters
IsFragment(k) ==
    /\ HasMarker(PrintedParam(k))
    /\ \A tok \in Tokens(PrintedParam(k)) :
          tok.t = "lit" \/ (tok.t = "ref" /\ ~HasMarker(PrintedParam(tok.v)))
\* the template reads a fragment parameter, and beside it only marker-free ones
TwoStage ==
    /\ \A tok \in DocTokens(template.content) :
          tok.t = "lit"
          \/ (tok.t = "ref" /\ (IsFragment(tok.v) \/ ~HasMarker(PrintedParam(tok.v))))
    /\ \E tok \in DocTokens(template.content) : tok.t = "ref" /\ IsFragment(tok.v)

\* C7: when the output of the first pass still holds "{{" because a parameter
\* is a template fragment over marker-free parameters, render runs exactly one
\* more pass and returns bytes without the marker.
C7_OneMorePass ==
    (pc = "unwind" /\ TwoStage /\ ~rendered.err)
        => /\ Len(passes) = 2
           /\ ~fileContains(rendered.bytes)

(***************************************************************************)
(* Claims about Apply as a whole (Spec).                                   *)
(***************************************************************************)
CallsOf(rid, op) == { i \in 1..Len(calls) : calls[i].rid = rid /\ calls[i].op = op }
Finished == pc = "done" /\ fatal = "none"

\* the documents createOrUpdateResource reaches from doc, lists walked through
RECURSIVE FlatDocs(_)
FlatDocs(doc) ==
    IF Unmarshal(doc).err \/ ~IsList(doc) THEN <<doc>>
    ELSE LET F[n \in 0..Len(doc.items)] ==
                 IF n = 0 THEN <<>> ELSE F[n - 1] \o FlatDocs(doc.items[n])
         IN  F[Len(doc.items)]
AllDecodable(docs) == \A i \in 1..Len(docs) : ~Unmarshal(docs[i]).err

C2_NoCrossResourceAbort ==
    (/\ Finished
     /\ IsList(rendered.bytes)
     /\ AllDecodable(FlatDocs(rendered.bytes)))
        => /\ Len(outcomes) = Len(FlatDocs(rendered.bytes))
           /\ \A j \in 1..Len(outcomes) :
                 /\ outcomes[j].doc = FlatDocs(rendered.bytes)[j]
                 /\ (\A i \in 1..Len(calls) :
                        calls[i].rid = outcomes[j].rid => calls[i].out # "error")
                       => outcomes[j].status \in {"created", "updated"}

\* C3: a failure of the value merge, of the stat or of render makes Apply
\* return an error, with no discovery, create or patch call made.
C3_FatalInputErrorsAbort ==
    (pc = "done" /\ fatal # "none") => (result = "error" /\ calls = <<>>)

\* C5: a List document without items (an empty items array, or none) makes
\* createOrUpdateResource issue no call, and Apply ends without an error.
C5_EmptyListIsNoOp ==
    (/\ Finished
     /\ rendered.bytes.kind = "List"
     /\ rendered.bytes.items = <<>>)
        => (calls = <<>> /\ result = "nil")

\* C9 as claimed: every document that is no list gets exactly one create
\* call and at most one patch call, the patch only after the create was
\* answered "already exists"; "created" ends it created, any other create
\* error ends it failed, both without a patch.
C9_ExactlyOneCreate ==
    \A j \in 1..Len(outcomes) :
        (~Unmarshal(outcomes[j].doc).err /\ outcomes[j].status # "skipped")
            => Cardinality(CallsOf(outcomes[j].rid, "create")) = 1

\* C9 as amended: at most one create call, and exactly one when the client
\* of the resource was resolved (none when discovery failed); the rest as
\* claimed.
C9_CreateThenPatch ==
    \A j \in 1..Len(outcomes) :
        LET o == outcomes[j]
            creates == CallsOf(o.rid, "create")
            patches == CallsOf(o.rid, "patch")
            resolved == \E i \in CallsOf(o.rid, "discover") : calls[i].out = "ok"
        IN  /\ Cardinality(creates) = (IF resolved THEN 1 ELSE 0)
            /\ Cardinality(patches) <= 1
            /\ \A i \in patches :
                  /\ i > 1
                  /\ calls[i - 1].op = "create"
                  /\ calls[i - 1].rid = o.rid
                  /\ calls[i - 1].out = "exists"
            /\ \A i \in creates :
                  /\ calls[i].out = "created" => (o.status = "created" /\ patches = {})
                  /\ calls[i].out = "error" => (o.status = "failed" /\ patches = {})

\* one resource was patched after "already exists", another one's discovery
\* failed and it got no create call
C9_Witness ==
    /\ \E i \in 1..Len(calls) : calls[i].op = "patch" /\ calls[i].out = "updated"
    /\ \E i \in 1..Len(calls) :
          /\ calls[i].op = "discover"
          /\ calls[i].out = "error"
          /\ CallsOf(calls[i].rid, "create") = {}

\* C10: the create call of a namespace-scoped resource goes to the namespace
\* the document carried, when it carried one, and to Apply's namespace
\* argument otherwise; the object sent carries that same namespace.
C10_NamespaceChoice ==
    \A i \in 1..Len(calls) :
        (calls[i].op = "create" /\ calls[i].client.namespaced)
            => LET e == calls[i]
                   ns == IF e.doc.namespace # <<>> THEN e.doc.namespace ELSE nsArg
               IN  e.obj.namespace = ns /\ e.client.ns = ns

\* the create and patch calls made so far
Writes == { i \in 1..Len(calls) : calls[i].op \in {"create", "patch"} }

\* C11: the object of every create call and the body of every patch call
\* has an empty self-link, resource version and uid and no owner reference,
\* whatever the document held.
C11_ManagedFieldsStripped ==
    \A i \in Writes :
        /\ calls[i].obj.selfLink = ""
        /\ calls[i].obj.resourceVersion = ""
        /\ calls[i].obj.uid = ""
        /\ calls[i].obj.ownerReferences = <<>>

\* the temporary files the open invocations of render are still to remove
Deferred == UNION { rstack[i] : i \in 1..Len(rstack) }

\* C12: every temporary file belongs to an invocation of render that has
\* not returned yet and that removes it when it returns, by whichever return
\* statement; once the outermost render has returned no temporary file is
\* left.
C12_TempFilesRemoved ==
    /\ tmpFiles = Deferred
    /\ pc \notin {"render", "unwind"} => tmpFiles = {}

\* a nested pass failed after two invocations had created their files, and
\* nothing is left behind
C12_Witness ==
    /\ fatal = "render"
    /\ Len(passes) >= 2
    /\ passes[1].tmp
    /\ passes[Len(passes)].tmp
    /\ passes[Len(passes)].exit \in {"execute", "scan", "stat"}
    /\ tmpFiles = {}

\* C13: the object of every create call and the body of every patch call
\* carries the group, version and kind the document was decoded with; the
\* kind makeNewPatchableData stamps on the object is that same one.
C13_GVKImmutable ==
    \A i \in Writes :
        /\ calls[i].obj.kind = calls[i].doc.kind
        /\ calls[i].obj.apiVersion = calls[i].doc.apiVersion

\* a patch body built by makeNewPatchableData was sent
C13_Witness ==
    /\ variant = "part000"
    /\ \E i \in 1..Len(calls) :
          /\ calls[i].op = "patch"
          /\ calls[i].obj.kind = "Deployment"
          /\ calls[i].obj.apiVersion = Apps

\* the template reads a parameter whose value reads that same parameter
SelfTrigger ==
    \E tok \in DocTokens(template.content) :
        /\ tok.t = "ref"
        /\ Ref(tok.v) \in Tokens(PrintedParam(tok.v))

\* the exits of render by an error of its own
ErrorExits == {"parse", "tmp", "stat", "execute", "scan"}

\* C14: with a parameter that reintroduces its own marker render does not
\* return bytes (it goes on to a new pass, unless a pass fails); and a pass
\* whose output holds no marker is the last one: render returns its output.
C14_NoPassLimit ==
    /\ (SelfTrigger /\ passes # <<>>)
          => \/ pc = "render"
             \/ passes[Len(passes)].exit \in ErrorExits
    /\ \A i \in 1..Len(passes) :
          (passes[i].exit \notin ErrorExits /\ ~fileContains(passes[i].out))
              => (i = Len(passes) /\ passes[i].exit = "return" /\ pc # "render")

====
